---------------------------- MODULE Spec2Model ----------------------------
(***************************************************************************)
(* State-machine model of the two trace analysers of arland-sync-fix:      *)
(*                                                                         *)
(*   analyze_checksums.py  parses trace_with_checksums.md into writes /    *)
(*                         reads / copies, verifies every READ against the *)
(*                         write behind the latest earlier copy, tabulates *)
(*                         checksum frequencies and read intervals;        *)
(*   find_bursts.py        extracts flush timestamps from atfix.log and    *)
(*                         scans them for bursts.                          *)
(*                                                                         *)
(* Both are straight-line scripts; pc is the position of the running       *)
(* script.  Python indices are kept 0-based as in the source; TLA+         *)
(* sequences are 1-based, so element k of a Python list s is s[k + 1].     *)
(*                                                                         *)
(* Resource and checksum tokens are the strings matched by 0x\w+; the      *)
(* scripts only ever test them for equality, so a token is represented by  *)
(* a small integer naming it.  Trace timestamps are int(\d+).  Flush       *)
(* timestamps are float seconds in the source and are represented by their *)
(* integer number of milliseconds; every input used here keeps each        *)
(* difference the scan tests at least 10 ms away from the 0.1 s and 5.0 s  *)
(* thresholds, where double rounding cannot change a comparison.           *)
(***************************************************************************)
EXTENDS Integers, Sequences, FiniteSets, TLC

VARIABLES
    \* ---- analyze_checksums.py ----
    trace,            \* the lines of trace_with_checksums.md
    lineNo,           \* 0-based index of the next line the parser reads
    writes,           \* dict: resource -> <<timestamp, checksum>>
    reads,            \* list of <<timestamp, resource, checksum>>
    copies,           \* list of <<timestamp, src, dst>>
    ri,               \* 0-based index of the next read the verifier takes
    matches,
    mismatches,
    verdicts,         \* per verified read: its recent_copy and its outcome
    checksum_counts,  \* dict items in insertion order: <<checksum, count>>
    top,              \* sorted(checksum_counts.items(), ...)[:10]
    read_intervals,
    stats,            \* <<>> or <<sum, len, min, max>> of read_intervals
    \* ---- find_bursts.py ----
    log,              \* the lines of atfix.log
    flushes,          \* flush timestamps (ms)
    i,
    burst_start,
    burst_end,
    bursts,           \* list of <<start timestamp, end timestamp, count>>
    \* ---- both ----
    pc,               \* position of the running script
    out,              \* the lines printed so far
    run,              \* 1 for a first invocation, 2 for a second one
    prev,             \* what the first invocation produced (<<>> before)
    found             \* whether open() finds the script's input file

checksumVars == <<trace, lineNo, writes, reads, copies, ri, matches,
                  mismatches, verdicts, checksum_counts, top,
                  read_intervals, stats>>
burstVars == <<log, flushes, i, burst_start, burst_end, bursts>>
vars == <<pc, out, run, prev, found, checksumVars, burstVars>>

None == <<>>

(***************************************************************************)
(* Small helpers on sequences.                                             *)
(***************************************************************************)
Take(s, n) == SubSeq(s, 1, IF n < Len(s) THEN n ELSE Len(s))

Range(s) == {s[k] : k \in 1..Len(s)}

SeqsUpTo(S, n) == UNION {[1..m -> S] : m \in 0..n}

RECURSIVE SumSeq(_)
SumSeq(s) == IF s = <<>> THEN 0 ELSE s[1] + SumSeq(Tail(s))

MinSeq(s) == CHOOSE x \in Range(s) : \A y \in Range(s) : x <= y
MaxSeq(s) == CHOOSE x \in Range(s) : \A y \in Range(s) : x >= y

(***************************************************************************)
(*                        analyze_checksums.py                             *)
(***************************************************************************)

(***************************************************************************)
(* A line of the trace: whether it starts with '#', and what each of the   *)
(* three regular expressions finds in it (None when it does not match).    *)
(* The three searches are independent, so one line may feed several lists. *)
(***************************************************************************)
Line(hash, w, r, c) == [comment |-> hash, w |-> w, r |-> r, c |-> c]

WriteLine(ts, res, sum) == Line(FALSE, <<ts, res, sum>>, None, None)
ReadLine(ts, res, sum) == Line(FALSE, None, <<ts, res, sum>>, None)
CopyLine(ts, src, dst) == Line(FALSE, None, None, <<ts, src, dst>>)
CommentLine(w) == Line(TRUE, w, None, None)

\* (variant) the index keeps the write with the larger timestamp
RecordNewestWrite(d, w) ==
    IF w[2] \in DOMAIN d /\ d[w[2]][1] > w[1] THEN d
    ELSE [x \in DOMAIN d \cup {w[2]} |-> IF x = w[2] THEN <<w[1], w[3]>> ELSE d[x]]

\* writes[resource] = (int(timestamp), checksum)
RecordWrite(d, w) ==
    [x \in DOMAIN d \cup {w[2]} |-> IF x = w[2] THEN <<w[1], w[3]>> ELSE d[x]]

ParsedWrites(d, ln) ==
    IF ln.comment \/ ln.w = None THEN d ELSE RecordWrite(d, ln.w)

ParsedReads(s, ln) ==
    IF ln.comment \/ ln.r = None THEN s ELSE Append(s, ln.r)

ParsedCopies(s, ln) ==
    IF ln.comment \/ ln.c = None THEN s ELSE Append(s, ln.c)

(***************************************************************************)
(* The inner loop of the verifier over copies[k..], with the candidate     *)
(* found so far.  A later copy replaces the candidate only with a          *)
(* strictly greater timestamp.                                             *)
(***************************************************************************)
\* (variant) a copy stamped at the read's own time qualifies as well
CopyQualifiesNotAfter(copy, read_time, read_res) ==
    copy[1] <= read_time /\ copy[3] = read_res

CopyQualifies(copy, read_time, read_res) ==
    copy[1] < read_time /\ copy[3] = read_res

\* (variant) a copy with the same timestamp replaces the candidate
CopyReplacesOnTie(copy, recent_copy) ==
    recent_copy = None \/ copy[1] >= recent_copy[1]

CopyReplaces(copy, recent_copy) ==
    recent_copy = None \/ copy[1] > recent_copy[1]

RECURSIVE ScanCopies(_, _, _, _, _)
ScanCopies(cs, k, recent_copy, read_time, read_res) ==
    IF k > Len(cs) THEN recent_copy
    ELSE ScanCopies(cs, k + 1,
                    IF /\ CopyQualifies(cs[k], read_time, read_res)
                       /\ CopyReplaces(cs[k], recent_copy)
                    THEN cs[k] ELSE recent_copy,
                    read_time, read_res)

RecentCopy(cs, read_time, read_res) ==
    ScanCopies(cs, 1, None, read_time, read_res)

\* (variant) the read's checksum is compared with the first field of the
\* stored pair, the write's timestamp
ClassifyByWriteTime(recent_copy, d, read_checksum) ==
    IF recent_copy = None THEN "UNCLASSIFIED"
    ELSE IF recent_copy[2] \notin DOMAIN d THEN "UNCLASSIFIED"
    ELSE IF d[recent_copy[2]][1] = read_checksum THEN "MATCH"
    ELSE "MISMATCH"

\* The outcome for one read: what lines 51-61 do with recent_copy.
Classify(recent_copy, d, read_checksum) ==
    IF recent_copy = None THEN "UNCLASSIFIED"
    ELSE IF recent_copy[2] \notin DOMAIN d THEN "UNCLASSIFIED"
    ELSE IF d[recent_copy[2]][2] = read_checksum THEN "MATCH"
    ELSE "MISMATCH"

\* lines 56-57 and 59-60: the counter a classified read increments
MatchesAfter(n, cls) == IF cls = "MATCH" THEN n + 1 ELSE n

\* (variant) the else branch hangs on an outer if: every read that is not a
\* match counts as a mismatch
MismatchesAfterAnyOther(n, cls) == IF cls = "MATCH" THEN n ELSE n + 1

MismatchesAfter(n, cls) == IF cls = "MISMATCH" THEN n + 1 ELSE n

VerdictLine(cls, recent_copy, d, rd) ==
    IF cls = "MATCH"
    THEN << <<"MATCH", recent_copy[2], rd[2], d[recent_copy[2]][2]>> >>
    ELSE IF cls = "MISMATCH"
    THEN << <<"MISMATCH", recent_copy[2], d[recent_copy[2]][2], rd[2], rd[3]>> >>
    ELSE <<>>

(***************************************************************************)
(* checksum_counts[checksum] += 1 on a defaultdict(int): a new key is      *)
(* appended to the dict's items, an old key keeps its place.               *)
(***************************************************************************)
CountOne(items, sum) ==
    IF \E k \in 1..Len(items) : items[k][1] = sum
    THEN [k \in 1..Len(items) |->
             IF items[k][1] = sum THEN <<sum, items[k][2] + 1>> ELSE items[k]]
    ELSE Append(items, <<sum, 1>>)

RECURSIVE CountAll(_, _, _)
CountAll(rs, k, items) ==
    IF k > Len(rs) THEN items
    ELSE CountAll(rs, k + 1, CountOne(items, rs[k][3]))

(***************************************************************************)
(* sorted(items, key=lambda x: -x[1]): a stable sort, so items with equal  *)
(* counts stay in dict order.  SortsBefore(a, b): b, met later, still goes *)
(* after a.                                                                *)
(***************************************************************************)
\* (variant) the sort key lacks its minus sign: ascending counts
SortsBeforeAscending(a, b) == a[2] <= b[2]

SortsBefore(a, b) == a[2] >= b[2]

InsertSorted(sorted, item) ==
    LET n == Cardinality({k \in 1..Len(sorted) : SortsBefore(sorted[k], item)})
    IN  SubSeq(sorted, 1, n) \o <<item>> \o SubSeq(sorted, n + 1, Len(sorted))

RECURSIVE SortedByCount(_, _, _)
SortedByCount(items, k, sorted) ==
    IF k > Len(items) THEN sorted
    ELSE SortedByCount(items, k + 1, InsertSorted(sorted, items[k]))

TOP_N == 10

TopItems(items) == Take(SortedByCount(items, 1, <<>>), TOP_N)

\* (variant) abs() of the difference: an interval is never negative
IntervalsAbsolute(rs) ==
    [k \in 1..(Len(rs) - 1) |->
        IF rs[k + 1][1] >= rs[k][1] THEN rs[k + 1][1] - rs[k][1]
        ELSE rs[k][1] - rs[k + 1][1]]

\* read_intervals: reads[i][0] - reads[i-1][0] for i in range(1, len(reads))
Intervals(rs) == [k \in 1..(Len(rs) - 1) |-> rs[k + 1][1] - rs[k][1]]

\* avg_interval is kept exact, as the pair sum, len
IntervalStats(iv) ==
    IF iv = <<>> THEN None
    ELSE <<SumSeq(iv), Len(iv), MinSeq(iv), MaxSeq(iv)>>


(***************************************************************************)
(* Input traces.  Three families of trace files:                           *)
(*   GeneralTraces    every sequence of at most MaxLines lines over a      *)
(*                    small alphabet of write, copy, read, comment and     *)
(*                    two-pattern lines (resources 1, 2 are copy sources,  *)
(*                    resource 3 is copied into, 3 and 2 are read back);   *)
(*   TimingTraces     reads at 100, 300, 700 us in every order;            *)
(*   FrequencyTraces  up to MaxReads reads whose checksums cycle through   *)
(*                    up to MaxSums tokens with a stride, so that the      *)
(*                    dict order differs from the token order and more     *)
(*                    than TOP_N distinct checksums occur.                 *)
(***************************************************************************)
MaxLines == 4
MaxReads == 12
MaxSums == 12

WriteLines == {WriteLine(3, 1, 1), WriteLine(1, 1, 2), WriteLine(2, 2, 2)}
CopyLines ==
    {CopyLine(1, 1, 3), CopyLine(2, 1, 3), CopyLine(2, 2, 3), CopyLine(3, 1, 3)}
ReadLines == {ReadLine(3, 3, 1), ReadLine(2, 3, 1), ReadLine(3, 2, 2)}
\* a comment that holds the text of a write, and a line that holds both a
\* read and a copy
MixedLines ==
    {CommentLine(<<3, 1, 2>>), Line(FALSE, None, <<3, 3, 2>>, <<1, 2, 3>>)}
GeneralLines == WriteLines \cup CopyLines \cup ReadLines \cup MixedLines

GeneralTraces == SeqsUpTo(GeneralLines, MaxLines)

TimingTraces ==
    {[k \in 1..Len(ts) |-> ReadLine(ts[k], 3, 1)] : ts \in SeqsUpTo({100, 300, 700}, 3)}

Strides == {1, 5}

FrequencyTraces ==
    {[k \in 1..n |-> ReadLine(k, 3, ((st * k) % m) + 1)] :
        n \in 0..MaxReads, m \in 1..MaxSums, st \in Strides}

Traces == GeneralTraces \cup TimingTraces \cup FrequencyTraces

(***************************************************************************)
(* The statements of analyze_checksums.py.                                 *)
(***************************************************************************)
\* lines 6-8: the module-level containers are created empty
InitWrites == writes' = <<>>
\* (variant) the list of reads survives from the previous invocation
KeepReads == reads' = reads

InitReads == reads' = <<>>
InitCopies == copies' = <<>>

\* (variant) the banner of line 33 is printed before the file is opened
StartChecksumsBannerFirst ==
    /\ pc = "start_checksums"
    /\ InitWrites
    /\ InitReads
    /\ InitCopies
    /\ lineNo' = 0
    /\ out' = Append(out, <<"CHECKSUM ANALYSIS">>)
    /\ pc' = IF found THEN "parse" ELSE "failed_checksums"
    /\ UNCHANGED <<trace, ri, matches, mismatches, verdicts, checksum_counts,
                   top, read_intervals, stats, burstVars, run, prev, found>>

\* lines 6-10: the containers, then open() of the trace file; without the
\* file open() raises FileNotFoundError and the interpreter exits
StartChecksums ==
    /\ pc = "start_checksums"
    /\ InitWrites
    /\ InitReads
    /\ InitCopies
    /\ lineNo' = 0
    /\ pc' = IF found THEN "parse" ELSE "failed_checksums"
    /\ UNCHANGED <<trace, ri, matches, mismatches, verdicts, checksum_counts,
                   top, read_intervals, stats, burstVars, out, run, prev, found>>

\* lines 11-31: one iteration of the loop over the lines of the file
ParseLine ==
    /\ pc = "parse"
    /\ lineNo < Len(trace)
    /\ LET ln == trace[lineNo + 1] IN
        /\ writes' = ParsedWrites(writes, ln)
        /\ reads' = ParsedReads(reads, ln)
        /\ copies' = ParsedCopies(copies, ln)
    /\ lineNo' = lineNo + 1
    /\ UNCHANGED <<trace, ri, matches, mismatches, verdicts, checksum_counts,
                   top, read_intervals, stats, burstVars, pc, out, run, prev, found>>

\* lines 33-42: end of file; the banner; the counters start at 0
EndParse ==
    /\ pc = "parse"
    /\ lineNo = Len(trace)
    /\ out' = out \o << <<"CHECKSUM ANALYSIS">>, <<"Checking">> >>
    /\ matches' = 0
    /\ mismatches' = 0
    /\ ri' = 0
    /\ verdicts' = <<>>
    /\ pc' = "verify"
    /\ UNCHANGED <<trace, lineNo, writes, reads, copies, checksum_counts, top,
                   read_intervals, stats, burstVars, run, prev, found>>

\* lines 43-61: one iteration of the loop over reads
VerifyRead ==
    /\ pc = "verify"
    /\ ri < Len(reads)
    /\ LET rd == reads[ri + 1]
           recent_copy == RecentCopy(copies, rd[1], rd[2])
           cls == Classify(recent_copy, writes, rd[3])
       IN
        /\ matches' = MatchesAfter(matches, cls)
        /\ mismatches' = MismatchesAfter(mismatches, cls)
        /\ verdicts' = Append(verdicts, [copy |-> recent_copy, cls |-> cls])
        /\ out' = out \o VerdictLine(cls, recent_copy, writes, rd)
    /\ ri' = ri + 1
    /\ UNCHANGED <<trace, lineNo, writes, reads, copies, checksum_counts, top,
                   read_intervals, stats, burstVars, pc, run, prev, found>>

\* lines 63-69: the totals and the next banner
EndVerify ==
    /\ pc = "verify"
    /\ ri = Len(reads)
    /\ out' = out \o << <<"Matches", matches>>, <<"Mismatches", mismatches>>,
                        <<"REPEATED CHECKSUMS">> >>
    /\ pc' = "frequency"
    /\ UNCHANGED <<checksumVars, burstVars, run, prev, found>>

\* lines 71-84: the frequency table, its ten most frequent entries
Frequency ==
    /\ pc = "frequency"
    /\ checksum_counts' = CountAll(reads, 1, <<>>)
    /\ top' = TopItems(checksum_counts')
    /\ out' = out \o << <<"Total unique checksums", Len(checksum_counts')>>,
                        <<"Total READ operations", Len(reads)>> >>
                  \o [k \in 1..Len(top') |-> <<"times", top'[k][1], top'[k][2]>>]
                  \o << <<"TIMING ANALYSIS">> >>
    /\ pc' = "timing"
    /\ UNCHANGED <<trace, lineNo, writes, reads, copies, ri, matches,
                   mismatches, verdicts, read_intervals, stats, burstVars,
                   run, prev, found>>

\* lines 86-95: the intervals between consecutive reads and their statistics
Timing ==
    /\ pc = "timing"
    /\ read_intervals' = Intervals(reads)
    /\ stats' = IntervalStats(read_intervals')
    /\ out' = out \o (IF stats' = None THEN <<>>
                      ELSE << <<"Average", stats'[1], stats'[2]>>,
                              <<"Min interval", stats'[3]>>,
                              <<"Max interval", stats'[4]>> >>)
    /\ pc' = "done_checksums"
    /\ UNCHANGED <<trace, lineNo, writes, reads, copies, ri, matches,
                   mismatches, verdicts, checksum_counts, top, burstVars,
                   run, prev, found>>

NextChecksums ==
    \/ StartChecksums
    \/ ParseLine
    \/ EndParse
    \/ VerifyRead
    \/ EndVerify
    \/ Frequency
    \/ Timing

\* Variables a script has not assigned yet hold None.
UnassignedChecksums ==
    /\ lineNo = None /\ writes = None /\ reads = None /\ copies = None
    /\ ri = None /\ matches = None /\ mismatches = None /\ verdicts = None
    /\ checksum_counts = None /\ top = None /\ read_intervals = None
    /\ stats = None

UnassignedBursts ==
    /\ flushes = None /\ i = None /\ burst_start = None /\ burst_end = None
    /\ bursts = None

InitChecksums ==
    /\ \/ found = TRUE /\ trace \in Traces
       \/ found = FALSE /\ trace = None
    /\ log = None
    /\ UnassignedChecksums
    /\ UnassignedBursts
    /\ pc = "start_checksums"
    /\ out = <<>>
    /\ run = 1
    /\ prev = None

Spec == InitChecksums /\ [][NextChecksums]_vars


(***************************************************************************)
(*                            find_bursts.py                               *)
(***************************************************************************)

(***************************************************************************)
(* A line of the log: whether it contains ' Flush #', whether the          *)
(* [<float>s] pattern matches in it, and the timestamp it then holds (ms). *)
(***************************************************************************)
LogLine(marker, stamped, ts) == [flush |-> marker, stamped |-> stamped, ts |-> ts]

\* lines 12-16: the loop over the lines of the log
RECURSIVE ExtractFlushes(_, _, _)
ExtractFlushes(lines, k, acc) ==
    IF k > Len(lines) THEN acc
    ELSE ExtractFlushes(lines, k + 1,
                        IF lines[k].flush /\ lines[k].stamped
                        THEN Append(acc, lines[k].ts) ELSE acc)

WINDOW_SIZE == 10         \* while i < len(flushes) - 10
WINDOW_LAST == 9          \* flushes[i + 9]
DENSE_SPAN_MS == 5000     \* window_duration < 5.0
GAP_MS == 100             \* gap < 0.1
MIN_BURST_COUNT == 30     \* burst_count > 30

\* flushes[k] of the source, k 0-based
Flush(k) == flushes[k + 1]

\* (variant) the window of the last ten flushes is tested as well
ScanContinuesInclusive(n, k) == k <= n - WINDOW_SIZE

\* (variant) the loop stops one index early
ScanContinuesShort(n, k) == k < n - WINDOW_SIZE - 1

\* line 24: the condition of the outer loop
ScanContinues(n, k) == k < n - WINDOW_SIZE

\* lines 25-30: the window of ten flushes starting at k spans less than 5 s
WindowIsDense(k) == Flush(k + WINDOW_LAST) - Flush(k) < DENSE_SPAN_MS

\* (variant) the gap is compared with the threshold of the window
CanExtendWithinSpan(n, e) ==
    e < n - 1 /\ Flush(e + 1) - Flush(e) < DENSE_SPAN_MS

\* lines 36-38: the flush after e exists and follows it by less than 100 ms
CanExtend(n, e) == e < n - 1 /\ Flush(e + 1) - Flush(e) < GAP_MS

\* (variant) the count leaves out the first flush
BurstCountExclusive(s, e) == e - s

\* line 44
BurstCount(s, e) == e - s + 1

\* (variant) a candidate of exactly 30 flushes is accepted
IsSignificantFromThirty(count) == count >= MIN_BURST_COUNT

\* (variant) a dense window of ten flushes is a burst already
IsSignificantOverWindow(count) == count >= WINDOW_SIZE

\* line 47
IsSignificant(count) == count > MIN_BURST_COUNT

\* (variant) the scan resumes at the flush after the burst's first one
AfterBurstNextIndex(k, e) == k + 1

\* line 55: the scan resumes after the burst that started at k and ended at e
AfterBurst(k, e) == e + 1

\* line 43: (flushes[burst_end] - flushes[burst_start]) * 1000, in ms
BurstDuration(s, e) == Flush(e) - Flush(s)

\* lines 36-41 on a list fl: where the extension that starts at e ends
RECURSIVE ExtendedEnd(_, _)
ExtendedEnd(fl, e) ==
    IF e < Len(fl) - 1 /\ fl[e + 2] - fl[e + 1] < GAP_MS
    THEN ExtendedEnd(fl, e + 1)
    ELSE e

(***************************************************************************)
(* lines 24-59 on a list fl, from cursor k with the records acc: the       *)
(* records the scan ends with.  inclusive = FALSE is line 24 as written,   *)
(* i < len(flushes) - 10; inclusive = TRUE is the same loop under          *)
(* i <= len(flushes) - 10.                                                 *)
(***************************************************************************)
RECURSIVE ScanFrom(_, _, _, _)
ScanFrom(fl, k, acc, inclusive) ==
    IF ~(k < Len(fl) - WINDOW_SIZE \/ (inclusive /\ k = Len(fl) - WINDOW_SIZE))
    THEN acc
    ELSE IF fl[k + WINDOW_LAST + 1] - fl[k + 1] < DENSE_SPAN_MS
         THEN LET e == ExtendedEnd(fl, k + WINDOW_LAST)
                  burst_count == BurstCount(k, e)
              IN  IF IsSignificant(burst_count)
                  THEN ScanFrom(fl, AfterBurst(k, e),
                                Append(acc, <<fl[k + 1], fl[e + 1], burst_count>>),
                                inclusive)
                  ELSE ScanFrom(fl, k + 1, acc, inclusive)
         ELSE ScanFrom(fl, k + 1, acc, inclusive)

\* line 10: the list of flushes is created empty
InitFlushes == flushes' = <<>>

\* lines 10-11: the list, then open() of the log; without the file open()
\* raises FileNotFoundError and the interpreter exits
StartBursts ==
    /\ pc = "start_bursts"
    /\ InitFlushes
    /\ pc' = IF found THEN "read_log" ELSE "failed_bursts"
    /\ UNCHANGED <<checksumVars, log, i, burst_start, burst_end, bursts, out,
                   run, prev, found>>

\* lines 12-23: the flush timestamps of the log; the scan starts at 0
ReadLog ==
    /\ pc = "read_log"
    /\ flushes' = ExtractFlushes(log, 1, flushes)
    /\ out' = Append(out, <<"Total flushes", Len(flushes')>>)
    /\ bursts' = <<>>
    /\ i' = 0
    /\ pc' = "scanning"
    /\ UNCHANGED <<checksumVars, log, burst_start, burst_end, run, prev, found>>

\* lines 24-33, 58-59: the dense-window test at i
Scan ==
    /\ pc = "scanning"
    /\ ScanContinues(Len(flushes), i)
    /\ IF WindowIsDense(i)
       THEN /\ burst_start' = i
            /\ burst_end' = i + WINDOW_LAST
            /\ pc' = "extending"
            /\ i' = i
       ELSE /\ i' = i + 1
            /\ UNCHANGED <<burst_start, burst_end, pc>>
    /\ UNCHANGED <<checksumVars, log, flushes, bursts, out, run, prev, found>>

\* lines 36-39: one iteration of the extension loop
Extend ==
    /\ pc = "extending"
    /\ CanExtend(Len(flushes), burst_end)
    /\ burst_end' = burst_end + 1
    /\ UNCHANGED <<checksumVars, log, flushes, i, burst_start, bursts, pc,
                   out, run, prev, found>>

\* lines 36-57: the extension loop ends; the burst is recorded or dropped
Accept ==
    /\ pc = "extending"
    /\ ~CanExtend(Len(flushes), burst_end)
    /\ LET burst_duration == BurstDuration(burst_start, burst_end)
           burst_count == BurstCount(burst_start, burst_end)
       IN IF IsSignificant(burst_count)
          THEN /\ bursts' = Append(bursts, <<Flush(burst_start),
                                             Flush(burst_end), burst_count>>)
               /\ out' = out \o << <<"Burst at", Flush(burst_start)>>,
                                   <<"Duration", burst_duration>>,
                                   <<"Flush count", burst_count>> >>
               /\ i' = AfterBurst(i, burst_end)
          ELSE /\ i' = i + 1
               /\ UNCHANGED <<bursts, out>>
    /\ pc' = "scanning"
    /\ UNCHANGED <<checksumVars, log, flushes, burst_start, burst_end, run,
                   prev, found>>

\* line 61: the outer loop ends
EndScan ==
    /\ pc = "scanning"
    /\ ~ScanContinues(Len(flushes), i)
    /\ out' = Append(out, <<"Total bursts detected", Len(bursts)>>)
    /\ pc' = "done_bursts"
    /\ UNCHANGED <<checksumVars, burstVars, run, prev, found>>

NextBursts ==
    \/ StartBursts
    \/ ReadLog
    \/ Scan
    \/ Extend
    \/ Accept
    \/ EndScan

(***************************************************************************)
(* Input logs.  The flushes of a log start at 0 ms and are spaced by a     *)
(* list of gaps: a lead of up to MaxLead equal gaps, an optional pause,    *)
(* then a run of up to MaxRun equal gaps.  A gap is 10 ms (inside a        *)
(* burst), 500 ms (ten flushes still span less than 5 s) or 6 s; the gaps  *)
(* of the run may also be 90 ms, just below the extension threshold.  A    *)
(* noisy log also holds a line without the Flush marker and a Flush line   *)
(* without a timestamp.                                                    *)
(***************************************************************************)
MaxLead == 30
MaxRun == 30

GapChoices == {10, 500, 6000}
RunGapChoices == GapChoices \cup {90}
Pauses == {0, 10000}

Repeat(g, n) == [k \in 1..n |-> g]

GapLists ==
    {Repeat(gA, nA) \o (IF p = 0 THEN <<>> ELSE <<p>>) \o Repeat(gB, nB) :
        gA \in GapChoices, nA \in 0..MaxLead, p \in Pauses,
        gB \in RunGapChoices, nB \in 0..MaxRun}

Stamps(gaps) == [k \in 1..(Len(gaps) + 1) |-> SumSeq(SubSeq(gaps, 1, k - 1))]

FlushLines(ts) == [k \in 1..Len(ts) |-> LogLine(TRUE, TRUE, ts[k])]

Noise(lines) ==
    <<LogLine(FALSE, TRUE, 5)>> \o lines \o <<LogLine(TRUE, FALSE, 0)>>

Logs ==
    LET clean == {<<>>} \cup {FlushLines(Stamps(g)) : g \in GapLists}
    IN  clean \cup {Noise(l) : l \in {c \in clean : Len(c) <= 1}}

InitBursts ==
    /\ \/ found = TRUE /\ log \in Logs
       \/ found = FALSE /\ log = None
    /\ trace = None
    /\ UnassignedChecksums
    /\ UnassignedBursts
    /\ pc = "start_bursts"
    /\ out = <<>>
    /\ run = 1
    /\ prev = None

SpecBursts == InitBursts /\ [][NextBursts]_vars


(***************************************************************************)
(* A second invocation on the unchanged input file.  The first process has *)
(* exited: its output is kept aside in prev, the new process starts with   *)
(* an empty output.  The model leaves every other variable as the first    *)
(* run left it, so anything the second run reads before assigning it would *)
(* show in its results.                                                    *)
(***************************************************************************)
Results ==
    [out |-> out, matches |-> matches, mismatches |-> mismatches,
     verdicts |-> verdicts, checksum_counts |-> checksum_counts, top |-> top,
     read_intervals |-> read_intervals, stats |-> stats, bursts |-> bursts]

Rerun ==
    /\ run = 1
    /\ pc \in {"done_checksums", "done_bursts"}
    /\ prev' = Results
    /\ run' = 2
    /\ out' = <<>>
    /\ pc' = IF pc = "done_checksums" THEN "start_checksums" ELSE "start_bursts"
    /\ UNCHANGED <<checksumVars, burstVars, found>>

MaxRerunLines == 3

RerunTraces ==
    SeqsUpTo(GeneralLines, MaxRerunLines) \cup TimingTraces \cup FrequencyTraces

RerunLogs ==
    {<<>>} \cup
    {FlushLines(Stamps(Repeat(g, n))) : g \in GapChoices, n \in 0..WINDOW_SIZE}
    \cup
    {FlushLines(Stamps(Repeat(10, nA) \o (IF p = 0 THEN <<>> ELSE <<p>>)
                       \o Repeat(gB, nB))) :
        nA \in 0..MaxLead, p \in Pauses, gB \in GapChoices,
        nB \in (MaxRun - 1)..MaxRun}

InitRerun ==
    /\ \/ /\ found = TRUE
          /\ \/ trace \in RerunTraces /\ log = None /\ pc = "start_checksums"
             \/ log \in RerunLogs /\ trace = None /\ pc = "start_bursts"
       \/ /\ found = FALSE
          /\ trace = None
          /\ log = None
          /\ pc \in {"start_checksums", "start_bursts"}
    /\ UnassignedChecksums
    /\ UnassignedBursts
    /\ out = <<>>
    /\ run = 1
    /\ prev = None

NextRerun ==
    \/ NextChecksums
    \/ NextBursts
    \/ Rerun

SpecRerun == InitRerun /\ [][NextRerun]_vars


(***************************************************************************)
(*                     Properties of analyze_checksums.py                  *)
(***************************************************************************)
Verifying == pc \in {"verify", "frequency", "timing", "done_checksums"}
Verified == pc \in {"frequency", "timing", "done_checksums"}
Tabulated == pc \in {"timing", "done_checksums"}

\* The copies into the read's resource with a timestamp strictly before it.
EarlierCopies(rd) ==
    {k \in 1..Len(copies) : copies[k][3] = rd[2] /\ copies[k][1] < rd[1]}

\* The non-comment lines among the first n that hold a write of resource res.
WriteLinesOf(res, n) ==
    {k \in 1..n : ~trace[k].comment /\ trace[k].w # None /\ trace[k].w[2] = res}

Last(S) == CHOOSE k \in S : \A j \in S : j <= k

\* The position in the trace of the line that gave reads[k].
RECURSIVE NthReadLine(_, _)
NthReadLine(k, from) ==
    IF ~trace[from].comment /\ trace[from].r # None
    THEN IF k = 1 THEN from ELSE NthReadLine(k - 1, from + 1)
    ELSE NthReadLine(k, from + 1)

CopyLinesOf(c) ==
    {k \in 1..Len(trace) : ~trace[k].comment /\ trace[k].c = c}

\* What one step of the verification loop does to a read with an earlier copy
\* and a stored write for the selected copy's source.
C1_Step ==
    (pc = "verify" /\ pc' = "verify" /\ ri' = ri + 1) =>
        LET rd == reads[ri + 1]
            v == verdicts'[ri + 1]
        IN  (EarlierCopies(rd) # {} /\ v.copy # None /\ v.copy[2] \in DOMAIN writes) =>
                LET same == writes[v.copy[2]][2] = rd[3] IN
                /\ (v.cls = "MATCH") <=> same
                /\ (v.cls = "MISMATCH") <=> ~same
                /\ same => matches' = matches + 1 /\ mismatches' = mismatches
                /\ ~same => mismatches' = mismatches + 1 /\ matches' = matches

(***************************************************************************)
(* C1.  A read that has a copy into its resource with an earlier timestamp *)
(* and a stored write for the selected copy's source is classified MATCH   *)
(* if and only if the stored write's checksum equals the read's checksum,  *)
(* and MISMATCH otherwise; the step that verifies it increments exactly    *)
(* one of matches and mismatches, by exactly 1.                            *)
(***************************************************************************)
C1_MatchIffChecksumsEqual == [][C1_Step]_vars

C1_Witness ==
    /\ Verified
    /\ \E k \in 1..Len(verdicts) : verdicts[k].cls = "MATCH"
    /\ \E k \in 1..Len(verdicts) : verdicts[k].cls = "MISMATCH"

\* reads[k] has no provenance: no earlier copy into its resource, or no
\* stored write for the source of the copy selected for it
IsUnclassified(k) ==
    \/ EarlierCopies(reads[k]) = {}
    \/ verdicts[k].copy # None /\ verdicts[k].copy[2] \notin DOMAIN writes

UnclassifiedUpTo(n) == Cardinality({k \in 1..n : IsUnclassified(k)})

(***************************************************************************)
(* C2.  After any prefix of the reads, matches + mismatches + unclassified *)
(* equals the number of reads processed, where a read is unclassified      *)
(* exactly when no copy into its resource is strictly earlier or the       *)
(* selected copy's source has no stored write; so matches + mismatches     *)
(* never exceeds the number of reads and falls short of it by the number   *)
(* of unclassified reads.                                                  *)
(***************************************************************************)
C2_TalliesAddUp ==
    Verifying =>
        /\ Len(verdicts) = ri
        /\ \A k \in 1..ri : (verdicts[k].cls = "UNCLASSIFIED") <=> IsUnclassified(k)
        /\ matches + mismatches + UnclassifiedUpTo(ri) = ri
        /\ matches + mismatches <= Len(reads)
        /\ Verified => Len(reads) - (matches + mismatches) = UnclassifiedUpTo(Len(reads))

\* a classified read beside a read whose selected copy's source was never
\* written
C2_Witness ==
    /\ Verified
    /\ matches + mismatches >= 1
    /\ \E k \in 1..Len(reads) :
          verdicts[k].copy # None /\ verdicts[k].copy[2] \notin DOMAIN writes

(***************************************************************************)
(* C3.  The copy used to explain a read goes into the read's resource, has *)
(* a timestamp strictly below the read's, and no other such copy has a     *)
(* larger timestamp; without such a copy there is none.  Where the copy's  *)
(* line stands in the trace relative to the read's line plays no part.     *)
(***************************************************************************)
C3_LatestEarlierCopy ==
    Verifying =>
        \A k \in 1..Len(verdicts) :
            LET rd == reads[k]
                c == verdicts[k].copy
            IN  IF EarlierCopies(rd) = {} THEN c = None
                ELSE /\ c \in {copies[j] : j \in EarlierCopies(rd)}
                     /\ \A j \in EarlierCopies(rd) : copies[j][1] <= c[1]

\* a read explained by a copy whose line comes after the read's line, while
\* another copy into the same resource is earlier still and a third is not
\* earlier than the read
C3_Witness ==
    /\ Verified
    /\ \E k \in 1..Len(verdicts) :
          /\ verdicts[k].copy # None
          /\ \A q \in CopyLinesOf(verdicts[k].copy) : NthReadLine(k, 1) < q
          /\ \E j \in EarlierCopies(reads[k]) : copies[j][1] < verdicts[k].copy[1]
          /\ \E j \in 1..Len(copies) :
                copies[j][3] = reads[k][2] /\ copies[j][1] >= reads[k][1]

(***************************************************************************)
(* C4.  The index holds, for each resource, exactly the write of the last  *)
(* line of the trace parsed so far that writes that resource, whatever the *)
(* timestamps; parsing is complete before the first read is verified, and  *)
(* every read is classified against that last-parsed write.                *)
(***************************************************************************)
C4_LastParsedWriteWins ==
    (pc \in {"parse"} \/ Verifying) =>
        /\ Verifying => lineNo = Len(trace)
        /\ DOMAIN writes = {res \in 1..3 : WriteLinesOf(res, lineNo) # {}}
        /\ \A res \in DOMAIN writes :
              LET w == trace[Last(WriteLinesOf(res, lineNo))].w
              IN  writes[res] = <<w[1], w[3]>>
        /\ Verifying =>
              \A k \in 1..Len(verdicts) :
                  LET c == verdicts[k].copy IN
                  (c # None /\ WriteLinesOf(c[2], Len(trace)) # {}) =>
                      LET w == trace[Last(WriteLinesOf(c[2], Len(trace)))].w
                      IN  verdicts[k].cls = IF w[3] = reads[k][3]
                                            THEN "MATCH" ELSE "MISMATCH"

\* a read classified against a write that was parsed after the read's line,
\* after an earlier-parsed write of the same resource with a larger timestamp
\* and another checksum, that timestamp being later than the read's
C4_Witness ==
    /\ Verified
    /\ \E k \in 1..Len(verdicts) :
          /\ verdicts[k].cls = "MISMATCH"
          /\ LET S == WriteLinesOf(verdicts[k].copy[2], Len(trace)) IN
             \E p \in S :
                /\ p < Last(S)
                /\ NthReadLine(k, 1) < p
                /\ trace[p].w[1] > trace[Last(S)].w[1]
                /\ trace[p].w[1] > reads[k][1]
                /\ trace[p].w[3] = reads[k][3]


(***************************************************************************)
(* C5.  The counts of the frequency table add up to the number of reads,   *)
(* every count is at least 1, the table has one key per distinct checksum  *)
(* read, and the top list has min(10, distinct) entries, in non-increasing *)
(* order of count, none of them rarer than an entry left out.              *)
(***************************************************************************)
ReadChecksums == {reads[k][3] : k \in 1..Len(reads)}

TimesRead(sum) == Cardinality({k \in 1..Len(reads) : reads[k][3] = sum})

C5_FrequencyTable ==
    Tabulated =>
        LET items == checksum_counts
            distinct == Cardinality(ReadChecksums)
        IN  /\ SumSeq([k \in 1..Len(items) |-> items[k][2]]) = Len(reads)
            /\ \A k \in 1..Len(items) : items[k][2] >= 1
            /\ \A k \in 1..Len(items) : items[k][2] = TimesRead(items[k][1])
            /\ {items[k][1] : k \in 1..Len(items)} = ReadChecksums
            /\ Len(items) = distinct
            /\ Len(top) = IF distinct < 10 THEN distinct ELSE 10
            /\ Cardinality(Range(top)) = Len(top)
            /\ Range(top) \subseteq Range(items)
            /\ \A k \in 1..(Len(top) - 1) : top[k][2] >= top[k + 1][2]
            /\ \A x \in Range(items) \ Range(top) :
                  \A t \in Range(top) : x[2] <= t[2]

\* more than ten distinct checksums, not all equally frequent
C5_Witness ==
    /\ Tabulated
    /\ Len(checksum_counts) > 10
    /\ Len(top) = 10
    /\ \E x, y \in Range(checksum_counts) : x[2] < y[2]

(***************************************************************************)
(* C6.  Among checksums with equal counts the top list is in ascending     *)
(* order of the checksum token, whatever the order in which the checksums  *)
(* were first read.                                                        *)
(***************************************************************************)
C6_TiesInTokenOrder ==
    Tabulated =>
        \A k \in 1..(Len(top) - 1) :
            top[k][2] = top[k + 1][2] => top[k][1] < top[k + 1][1]

(***************************************************************************)
(* C7.  n reads, taken in trace order, give n - 1 intervals, each the      *)
(* difference of two consecutive timestamps (negative when they are out of *)
(* order); the intervals add up to the last timestamp minus the first, min *)
(* and max are the least and the greatest of them, and statistics are      *)
(* reported if and only if n >= 2.  Reads at 100, 300, 700 give intervals  *)
(* 200, 400, mean 300, min 200, max 400.                                   *)
(***************************************************************************)
ReadTimes == [k \in 1..Len(reads) |-> reads[k][1]]

C7_Intervals ==
    pc = "done_checksums" =>
        LET n == Len(reads)
            iv == read_intervals
        IN  /\ Len(iv) = IF n >= 1 THEN n - 1 ELSE 0
            /\ \A k \in 1..Len(iv) : iv[k] = ReadTimes[k + 1] - ReadTimes[k]
            /\ (stats # None) <=> n >= 2
            /\ (out[Len(out)][1] = "Max interval") <=> n >= 2
            /\ n < 2 => out[Len(out)] = <<"TIMING ANALYSIS">>
            /\ n >= 2 =>
                  /\ stats[1] = ReadTimes[n] - ReadTimes[1]
                  /\ stats[2] = n - 1
                  /\ stats[3] \in Range(iv) /\ \A x \in Range(iv) : stats[3] <= x
                  /\ stats[4] \in Range(iv) /\ \A x \in Range(iv) : stats[4] >= x
                  /\ SubSeq(out, Len(out) - 2, Len(out)) =
                        << <<"Average", stats[1], stats[2]>>,
                           <<"Min interval", stats[3]>>,
                           <<"Max interval", stats[4]>> >>
            /\ ReadTimes = <<100, 300, 700>> =>
                  /\ iv = <<200, 400>>
                  /\ stats[1] = 300 * stats[2]
                  /\ stats[3] = 200
                  /\ stats[4] = 400

C7_Witness == pc = "done_checksums" /\ ReadTimes = <<100, 300, 700>>

(***************************************************************************)
(*                       Properties of find_bursts.py                      *)
(***************************************************************************)
Gap(k) == flushes[k + 1] - flushes[k]

ExampleBurst == [k \in 1..35 |-> 10 * (k - 1)]

(***************************************************************************)
(* C8.  More than 30 flushes, each less than 0.1 s after the one before:   *)
(* the scan emits exactly one burst, from the first flush to the last,     *)
(* with all N flushes, and reports (end - start) as its duration in ms.    *)
(* 35 flushes at 0, 10, ..., 340 ms give one burst 0..340 ms of count 35   *)
(* and duration 340 ms.                                                    *)
(***************************************************************************)
C8_OneBurst ==
    pc = "done_bursts" =>
        LET N == Len(flushes) IN
        /\ (N > MIN_BURST_COUNT /\ \A k \in 1..(N - 1) : Gap(k) < GAP_MS) =>
              /\ bursts = << <<flushes[1], flushes[N], N>> >>
              /\ out = << <<"Total flushes", N>>,
                          <<"Burst at", flushes[1]>>,
                          <<"Duration", flushes[N] - flushes[1]>>,
                          <<"Flush count", N>>,
                          <<"Total bursts detected", 1>> >>
        /\ flushes = ExampleBurst =>
              /\ bursts = << <<0, 340, 35>> >>
              /\ out[3] = <<"Duration", 340>>

C8_Witness == pc = "done_bursts" /\ flushes = ExampleBurst

\* no window the scan tests spans less than 5 s
NoDenseWindow ==
    \A k \in 0..(Len(flushes) - WINDOW_SIZE - 1) :
        Flush(k + WINDOW_LAST) - Flush(k) >= DENSE_SPAN_MS

(***************************************************************************)
(* C9.  No burst is ever emitted for a flush sequence without a dense      *)
(* window at any index the scan tests, nor for one of at most 30 flushes;  *)
(* so none for 9 flushes 10 ms apart, a 10 s gap, then flushes more than   *)
(* 5 s apart.                                                              *)
(***************************************************************************)
C9_NoBurst ==
    pc \in {"scanning", "extending", "done_bursts"} =>
        ((NoDenseWindow \/ Len(flushes) <= MIN_BURST_COUNT) =>
            /\ bursts = <<>>
            /\ pc = "done_bursts" => out[Len(out)] = <<"Total bursts detected", 0>>)

C9_Witness ==
    /\ pc = "done_bursts"
    /\ Len(flushes) > MIN_BURST_COUNT
    /\ \A k \in 1..8 : Gap(k) = 10
    /\ Gap(9) = 10000
    /\ \A k \in 10..(Len(flushes) - 1) : Gap(k) > DENSE_SPAN_MS
    /\ bursts = <<>>

EmptyReport ==
    << <<"CHECKSUM ANALYSIS">>, <<"Checking">>, <<"Matches", 0>>,
       <<"Mismatches", 0>>, <<"REPEATED CHECKSUMS">>,
       <<"Total unique checksums", 0>>, <<"Total READ operations", 0>>,
       <<"TIMING ANALYSIS">> >>

\* the input file of the running script holds no operation, or at most
\* WINDOW_SIZE lines
EmptyInput ==
    IF pc \in {"start_bursts", "read_log", "scanning", "extending",
               "done_bursts"}
    THEN Len(log) <= WINDOW_SIZE
    ELSE \A k \in 1..Len(trace) :
            \/ trace[k].comment
            \/ trace[k].w = None /\ trace[k].r = None /\ trace[k].c = None

(***************************************************************************)
(* C11.  Empty input is not an error: on it a run is never stuck before    *)
(* its last statement.  A trace without writes, reads and                  *)
(* copies ends with matches = mismatches = 0, no checksum, no read, an     *)
(* empty top list and no interval statistics; a trace without copies or    *)
(* without writes ends with matches = mismatches = 0.  With at most        *)
(* WINDOW_SIZE flushes the scan runs no iteration (the cursor stays at 0,  *)
(* no candidate is ever extended) and ends with 0 bursts.                  *)
(***************************************************************************)
C11_EmptyInputCompletes ==
    /\ (found /\ EmptyInput) =>
        (pc \in {"done_checksums", "done_bursts"} \/ ENABLED NextRerun)
    /\ (pc = "done_checksums" /\ DOMAIN writes = {} /\ reads = <<>>
            /\ copies = <<>>) =>
        /\ matches = 0 /\ mismatches = 0
        /\ checksum_counts = <<>> /\ top = <<>>
        /\ read_intervals = <<>> /\ stats = None
        /\ out = EmptyReport
    /\ (pc = "done_checksums" /\ (copies = <<>> \/ DOMAIN writes = {})) =>
        matches = 0 /\ mismatches = 0
    /\ (pc \in {"scanning", "extending", "done_bursts"}
            /\ Len(flushes) <= WINDOW_SIZE) =>
        /\ pc # "extending"
        /\ i = 0
        /\ bursts = <<>>
        /\ pc = "done_bursts" =>
            out = << <<"Total flushes", Len(flushes)>>,
                     <<"Total bursts detected", 0>> >>

\* ten flushes 10 ms apart went through the scan
C11_Witness ==
    /\ pc = "done_bursts"
    /\ Len(flushes) = WINDOW_SIZE
    /\ Flush(WINDOW_LAST) - Flush(0) < DENSE_SPAN_MS
    /\ bursts = <<>>

(***************************************************************************)
(* C12.  A missing input file is fatal and leaves no partial output.  Both *)
(* scripts open their file before they print anything, so nothing has been *)
(* printed while a script is still at its start; without the file the run  *)
(* goes from its start to the failure of open() and no further, and its    *)
(* output stays empty.                                                     *)
(***************************************************************************)
C12_MissingFileNoOutput ==
    /\ pc \in {"start_checksums", "start_bursts"} => out = <<>>
    /\ ~found =>
        /\ pc \in {"start_checksums", "start_bursts", "failed_checksums",
                   "failed_bursts"}
        /\ out = <<>>
    /\ pc \in {"failed_checksums", "failed_bursts"} =>
        /\ ~found
        /\ ~ENABLED NextRerun

C12_Witness == pc = "failed_checksums" /\ ~found /\ out = <<>>

\* the step that appends a burst record
Emits == pc = "extending" /\ pc' = "scanning" /\ bursts' # bursts

\* What holds of the record appended for the candidate burst_start..burst_end.
C13_Step ==
    Emits =>
        LET s == burst_start
            e == burst_end
        IN  /\ s = i
            /\ bursts' = Append(bursts, <<Flush(s), Flush(e), e - s + 1>>)
            /\ e - s + 1 > MIN_BURST_COUNT
            /\ Flush(s + WINDOW_LAST) - Flush(s) < DENSE_SPAN_MS
            /\ \A k \in (s + WINDOW_LAST)..(e - 1) :
                    Flush(k + 1) - Flush(k) < GAP_MS
            /\ \/ e = Len(flushes) - 1
               \/ Flush(e + 1) - Flush(e) >= GAP_MS

(***************************************************************************)
(* C13.  Every emitted burst, from start index i to end index e, has       *)
(* count = e - i + 1 > 30, a first window of ten flushes spanning less     *)
(* than 5 s, every gap from index i + 9 on below 100 ms, and cannot be     *)
(* extended to the right: e is the last flush or the gap after e is at     *)
(* least 100 ms.  (The gaps inside the first window and the whole span are *)
(* not bounded by the two thresholds: see the witness.)                    *)
(***************************************************************************)
C13_BurstShape == [][C13_Step]_vars

\* a burst was just recorded that spans 5 s or more and whose first window
\* holds a gap of 100 ms or more
C13_Witness ==
    /\ pc = "scanning"
    /\ bursts # <<>>
    /\ i = burst_end + 1
    /\ Flush(burst_end) - Flush(burst_start) >= DENSE_SPAN_MS
    /\ \E k \in burst_start..(burst_start + WINDOW_LAST - 1) :
            Flush(k + 1) - Flush(k) >= GAP_MS

Scanning == pc \in {"scanning", "extending"}

\* A natural number that bounds the steps the scan has left: the flushes
\* from the cursor i on, each weighed by N + 2, plus what the extension of
\* the current candidate can still cover.
Remaining ==
    LET N == Len(flushes) IN
    IF ~Scanning THEN 0
    ELSE (N - i) * (N + 2)
         + (IF pc = "extending" THEN N - burst_end ELSE N + 1)

\* What one step of the scan does to the cursors and to the scan's state.
C14_Step ==
    LET N == Len(flushes) IN
    /\ Scanning => (Remaining' >= 0 /\ Remaining' < Remaining)
    /\ (pc = "scanning" /\ pc' = "scanning") => i' = i + 1
    /\ (pc = "scanning" /\ pc' = "extending") =>
            i' = i /\ burst_end' = i + WINDOW_LAST /\ burst_end' <= N - 1
    /\ (pc = "extending" /\ pc' = "extending") =>
            i' = i /\ burst_end' = burst_end + 1 /\ burst_end' <= N - 1
    /\ (pc = "extending" /\ pc' # "extending") =>
            /\ pc' = "scanning"
            /\ IF bursts' # bursts
               THEN i' = burst_end + 1 /\ i' > i
               ELSE i' = i + 1
    /\ (pc = "read_log" /\ pc' # pc) => pc' = "scanning" /\ i' = 0
    /\ pc' = "done_bursts" =>
            pc \in {"scanning", "done_bursts"} /\ i >= N - WINDOW_SIZE
    /\ pc' \in {"scanning", "extending"} =>
            pc \in {"read_log", "scanning", "extending"}

(***************************************************************************)
(* C14.  The scan terminates.  It starts scanning at i = 0 and is then     *)
(* only ever scanning or extending.  Each outer iteration increases i: by  *)
(* exactly 1 after a window that is not dense or a rejected candidate, to  *)
(* e + 1 > i after an emitted burst.  While extending, e increases by 1    *)
(* and never passes N - 1.  The scan ends from scanning, with              *)
(* i >= N - WINDOW_SIZE.  It terminates: while it runs it always has a     *)
(* next step, and each step decreases the natural number Remaining.        *)
(***************************************************************************)
C14_ScanTerminates ==
    /\ [](Scanning => ENABLED NextBursts)
    /\ [][C14_Step]_vars

\* the scan ended after a rejected candidate and an emitted burst
C14_Witness ==
    /\ pc = "done_bursts"
    /\ Len(bursts) = 1
    /\ bursts[1][1] > Flush(0)
    /\ Flush(WINDOW_LAST) - Flush(0) < DENSE_SPAN_MS
    /\ i >= Len(flushes) - WINDOW_SIZE

\* The index of the flush with timestamp t (the timestamps of the input
\* logs are strictly increasing, so there is one).
IndexOf(t) == CHOOSE k \in 0..(Len(flushes) - 1) : Flush(k) = t

FirstIndex(b) == IndexOf(bursts[b][1])
LastIndex(b) == IndexOf(bursts[b][2])

(***************************************************************************)
(* C15.  The emitted bursts do not overlap and come in ascending order:    *)
(* each burst covers the flushes from its start index to its end index,    *)
(* a later burst starts after the end index of every earlier one, no flush *)
(* lies in two bursts, and the counts add up to at most N.                 *)
(***************************************************************************)
C15_BurstsDisjoint ==
    pc \in {"scanning", "extending", "done_bursts"} =>
        /\ \A b \in 1..Len(bursts) :
                bursts[b][3] = LastIndex(b) - FirstIndex(b) + 1
        /\ \A a, b \in 1..Len(bursts) :
                a < b => FirstIndex(b) > LastIndex(a)
        /\ \A k \in 0..(Len(flushes) - 1) :
                Cardinality({b \in 1..Len(bursts) :
                                FirstIndex(b) <= k /\ k <= LastIndex(b)}) <= 1
        /\ SumSeq([b \in 1..Len(bursts) |-> bursts[b][3]]) <= Len(flushes)

C15_Witness == pc = "done_bursts" /\ Len(bursts) = 2

\* the records of the scan as written, and of the scan that also tests the
\* window of the last ten flushes
ImplementedBursts(fl) == ScanFrom(fl, 0, <<>>, FALSE)
InclusiveBursts(fl) == ScanFrom(fl, 0, <<>>, TRUE)

\* a record of the inclusive scan that the scan as written does not emit
UnderReported(fl) == Range(InclusiveBursts(fl)) \ Range(ImplementedBursts(fl))

(***************************************************************************)
(* C16 (as claimed).  End-of-trace under-reporting: among the logs the     *)
(* script may be started on, some log makes the scan under                 *)
(* i <= N - WINDOW_SIZE emit a burst record that the scan as written does  *)
(* not emit.                                                               *)
(***************************************************************************)
C16_SomeLogUnderReported ==
    pc = "start_bursts" =>
        \E l \in Logs : UnderReported(ExtractFlushes(l, 1, <<>>)) # {}

(***************************************************************************)
(* C16 (amended).  On every flush sequence the scan under                  *)
(* i <= N - WINDOW_SIZE ends with exactly the records of the scan as       *)
(* written: the one more window it tests is the last ten flushes, whose    *)
(* candidate has 10 <= 30 flushes and is never emitted.                    *)
(***************************************************************************)
C16_InclusiveScanSame ==
    pc = "done_bursts" =>
        /\ ImplementedBursts(flushes) = bursts
        /\ InclusiveBursts(flushes) = bursts

\* a scan ended whose last ten flushes are a dense window that the scan as
\* written did not test, after a burst and a pause
C16_Witness ==
    /\ pc = "done_bursts"
    /\ Len(flushes) > MIN_BURST_COUNT + WINDOW_SIZE
    /\ i = Len(flushes) - WINDOW_SIZE
    /\ Flush(i + WINDOW_LAST) - Flush(i) < DENSE_SPAN_MS
    /\ bursts # <<>>

\* The earlier copies into the read's resource that share the greatest
\* timestamp among them.
LatestEarlierCopies(rd) ==
    {j \in EarlierCopies(rd) :
        \A q \in EarlierCopies(rd) : copies[q][1] <= copies[j][1]}

First(S) == CHOOSE k \in S : \A j \in S : k <= j

(***************************************************************************)
(* C17.  Copy tie-break.  When several copies into the read's resource     *)
(* share the greatest timestamp strictly below the read's, the one that    *)
(* comes first in the trace is selected, and the read is classified        *)
(* against the write stored for that copy's source.                        *)
(***************************************************************************)
C17_FirstOfTiedCopies ==
    Verifying =>
        \A k \in 1..Len(verdicts) :
            LET rd == reads[k]
                tied == LatestEarlierCopies(rd)
            IN  tied # {} =>
                    LET c == copies[First(tied)]
                    IN  /\ verdicts[k].copy = c
                        /\ verdicts[k].cls =
                            IF c[2] \notin DOMAIN writes THEN "UNCLASSIFIED"
                            ELSE IF writes[c[2]][2] = rd[3] THEN "MATCH"
                            ELSE "MISMATCH"

\* a read was classified against the source of the first of two tied copies
\* that name different sources
C17_Witness ==
    /\ Verified
    /\ \E k \in 1..Len(verdicts) :
          /\ verdicts[k].cls # "UNCLASSIFIED"
          /\ \E j \in LatestEarlierCopies(reads[k]) :
                /\ j > First(LatestEarlierCopies(reads[k]))
                /\ copies[j][2] # verdicts[k].copy[2]

\* The indices a step of the scan reads flushes at: i and i + 9 for a
\* window test; burst_start and burst_end while extending, and
\* burst_end + 1 when the extension goes on.
C18_Step ==
    LET N == Len(flushes) IN
    /\ (pc = "scanning" /\ pc' # "done_bursts") =>
            /\ 0 <= i
            /\ i < N - WINDOW_SIZE
            /\ i + WINDOW_LAST <= N - 1
    /\ pc = "extending" =>
            /\ 0 <= burst_start
            /\ burst_start <= burst_end
            /\ burst_end <= N - 1
            /\ pc' = "extending" => burst_end + 1 <= N - 1

(***************************************************************************)
(* C18.  Index safety of the scan.  Every index at which a step reads the  *)
(* list of flushes (i, i + 9, burst_start, burst_end, burst_end + 1) lies  *)
(* in 0..N-1, and a window test starts only at an i with                   *)
(* 0 <= i < N - WINDOW_SIZE, so never at one of the last positions.        *)
(***************************************************************************)
C18_IndicesInRange == [][C18_Step]_vars

\* the window at the last index the loop admits was dense and its candidate
\* was extended to the last flush
C18_Witness ==
    /\ pc = "extending"
    /\ burst_start = Len(flushes) - WINDOW_SIZE - 1
    /\ burst_end = Len(flushes) - 1

=============================================================================
